---- MODULE Spec2Model ----
(***************************************************************************)
(* Viewport-driven fetch coordination of the map client: the points hook   *)
(* (useMapPlaces), the hover preview hook (useHoverPreview) and the        *)
(* selection handlers of MapView.  Each asynchronous handler is split at   *)
(* its await: the part before it is one action, the continuation after the *)
(* network answered is another.  Timers fire at any moment while pending.  *)
(***************************************************************************)
EXTENDS Integers, Sequences, FiniteSets, TLC

\* ------------------------------------------------------------------ bounds
MaxFetches == 2          \* points fetches issued in one behaviour
MaxTimers == 2           \* debounce timers created in one behaviour
MaxHoverTimers == 3      \* hover timers created in one behaviour
MaxHoverFetches == 2     \* hover detail fetches issued in one behaviour
MaxDetailFetches == 3    \* selection detail fetches issued in one behaviour
MaxHoverCalls == 4       \* handleMarkerHover calls in one behaviour
MaxDiscoverCalls == 6    \* discovery picks in one behaviour
MaxNetworkEvents == 4    \* online / offline events in one behaviour

\* ------------------------------------------------------- program constants
MIN_SCAN_ZOOM == 11
MIN_RADIUS == 8000
MAX_RADIUS == 10000
MAX_CACHE_SIZE == 50
MAX_BOOKMARKS == 100
HISTORY_SIZE == 5

\* --------------------------------------------------------------- input sets
Languages == {"en", "fr"}
PageIds == {1, 2}
\* Coordinates are in units of 0.0001 degree: -3 is -0.0003, 14 is 0.0014.
Lats == {-3, 2, 14}
Lngs == {2}
Zooms == {10, 11}
\* Corner-to-corner distance of the viewport bounds, in metres.
Diagonals == {18000}
\* What the geosearch request can answer: a transport/parse failure or a list.
GeoResults == {<<>>, <<1>>}
NetFail == [ok |-> FALSE, list |-> <<>>]
NetOutcomes == {NetFail} \cup {[ok |-> TRUE, list |-> r] : r \in GeoResults}

\* Cursor positions (clientX, clientY) of a hover event.
Cursors == {<<10, 20>>}

\* Place ids handed to toggleBookmark and removeBookmark: one that the stored
\* lists contain, two that they do not.
BookmarkIds == {1, MAX_BOOKMARKS + 101, MAX_BOOKMARKS + 102}

\* What localStorage may hold under 'wiki-bookmarks': nothing, text that
\* JSON.parse rejects, JSON that is not an array, or the JSON of a list of
\* bookmark records (told by their pageid): empty, one below the cap, at the
\* cap, above the cap, and one naming a place twice.
StoredLists ==
    {[i \in 1..n |-> i] :
        n \in {0, MAX_BOOKMARKS - 1, MAX_BOOKMARKS, MAX_BOOKMARKS + 1}}
      \cup {<<1, 1>>}
StoredValues ==
    {[kind |-> k, list |-> <<>>] : k \in {"absent", "malformed", "nonarray"}}
      \cup {[kind |-> "array", list |-> l] : l \in StoredLists}

\* Discovery themes and the length of their location lists.  The handler
\* reads a list through its indices only; the lists are cut to 6 locations
\* (longer than the history, as every list of the table is) and to 2 (shorter
\* than the history, which the handler provides for).
Themes == {"random", "castles"}
LocationCount == [random |-> 6, castles |-> 2]

\* Corner-to-corner distances, in metres, handed to calculateRadius on its
\* own: even, so that half of it is a whole number of metres.
RadiusDiagonals ==
    {500 * k : k \in 0..48}
      \cup {6000, 15998, 16000, 16002, 19998, 20000, 20002, 100000}

\* Coordinates, in whole degrees, handed to fetchNearbyPlaces on its own:
\* inside the valid ranges, on their ends, just outside and several turns
\* away.
QueryLats == {-200, -91, -90, -89, 0, 45, 90, 91, 1000}
QueryLons ==
    {-900, -541, -540, -181, -180, -179, -1, 0, 179, 180, 181, 190, 359, 360,
     539, 540, 541, 900}

\* What the service can do with one request.  The transport rejects, or it
\* resolves with a body: text that json() rejects, the JSON null, an object
\* without `query` (an API error), or an object with `query` carrying a
\* geosearch list (possibly missing) and the ids that `pages` has entries for.
RequestedIds == {1, 2, 3}
ResponseBodies ==
    {[kind |-> k, list |-> <<>>, pages |-> {}] :
        k \in {"unparsable", "null", "noquery"}}
      \cup {[kind |-> "query", list |-> l, pages |-> ps] :
              l \in {<<>>, <<1>>, <<1, 2>>}, ps \in SUBSET RequestedIds}
HttpResponses ==
    {[transport |-> "rejected",
      body |-> [kind |-> "none", list |-> <<>>, pages |-> {}]]}
      \cup {[transport |-> "resolved", body |-> b] : b \in ResponseBodies}

NoMap == [zoom |-> 0]
NoCall == [fn |-> "none", arg |-> 0, result |-> 0, done |-> FALSE]
NoArticle == [pageid |-> 0, lang |-> ""]
NoPosition == <<>>
NoKey == <<>>
NoResponse == [ok |-> FALSE, list |-> <<0>>]

VARIABLES
    \* useMapPlaces
    mapRef,              \* mapRef.current: NoMap or [zoom, lat, lng, diag]
    language,            \* the language prop of the hooks
    places, isLoadingPlaces, isScanDisabled,
    fetchTimeoutRef,     \* id of the last debounce timer set, 0 for null
    pendingTimers,       \* debounce timers set and neither fired nor cleared
    timerCount,          \* debounce timers created so far
    abortControllerRef,  \* id of the controller in the ref, 0 for null
    aborted,             \* controllers whose signal is aborted
    lastFetchKeyRef,
    inflight,            \* fetchNearbyPlaces calls awaiting their answer
    fetchCount,          \* network geo fetches issued so far
    \* history
    lastResponse,        \* the answer the latest resolved points fetch received
    lastCallView,        \* the viewport at the latest debouncedFetch call
    \* useHoverPreview
    hoveredArticle, hoverPosition, isLoadingHover,
    hoverTimeoutRef,     \* id of the hover timer in the ref, 0 for null
    hoverTimers,         \* hover timers set and neither fired nor cleared
    hoverTimerCount,     \* hover timers created so far
    hoverAbortControllerRef,  \* useHoverPreview's abortControllerRef
    hoverAborted,        \* hover controllers whose signal is aborted
    cacheRef,            \* cache key -> article
    cacheOrderRef,       \* cache keys, oldest insertion first
    hoverInflight,       \* fetchArticleDetails calls of the hover path
    hoverFetchCount,     \* hover detail fetches issued so far
    lastHoverCall,       \* history: number and place of the latest handleMarkerHover
    \* MapView selection
    selectedPlace,       \* pageid of the selected place, 0 for null
    selectedArticle, isLoadingArticle, isPanelOpen,
    detailInflight,      \* fetchArticleDetails calls of handleMarkerClick
    detailFetchCount,    \* selection detail fetches issued so far
    lastDetailAnswer,    \* history: what the latest resolved detail fetch got
    \* useBookmarks
    bookmarks,           \* pageids of the bookmark records, in list order
    storage,             \* the value stored under STORAGE_KEY
    bookmarksLoaded,     \* the load effect has run
    lastToasts,          \* toasts raised by the latest operation, in order
    lastSave,            \* history: saveToStorage in the latest operation
    lastBookmarkOp,      \* history: the latest operation and its argument
    prevBookmarks,       \* history: the collection before the latest operation
    \* useDiscovery
    historyRef,          \* theme -> indices picked last, oldest first
    discoverPicks,       \* history: theme -> every index picked, in order
    lastDiscover,        \* history: theme and return value of the latest call
    \* useOfflineStatus, OfflineIndicator
    isOnline, wasOffline, showReconnected,
    reconnectTimers,     \* 'Back online' timers set and neither fired nor cleared
    reconnectTimerCount, \* 'Back online' timers created so far
    effectDeps,          \* <<isOnline, wasOffline>> the indicator's effect last ran for
    effectTimer,         \* the timer that effect's cleanup clears, 0 for none
    onlineListener,      \* wasOffline as captured by the registered handleOnline
    batchedUpdates,      \* the renderer applies one handler's updates in one render
    networkEvents,       \* history: the online / offline events delivered, in order
    \* lifecycle
    mounted,             \* the component using the hooks is mounted
    \* a pure function evaluated on its own
    pureCall             \* [fn, arg, result, done]

placesVars == <<mapRef, language, places, isLoadingPlaces, isScanDisabled,
                fetchTimeoutRef, pendingTimers, timerCount, abortControllerRef,
                aborted, lastFetchKeyRef, inflight, fetchCount, lastResponse,
                lastCallView>>

hoverVars == <<hoveredArticle, hoverPosition, isLoadingHover, hoverTimeoutRef,
               hoverTimers, hoverTimerCount, hoverAbortControllerRef,
               hoverAborted, cacheRef, cacheOrderRef, hoverInflight,
               hoverFetchCount, lastHoverCall>>

selectVars == <<selectedPlace, selectedArticle, isLoadingArticle, isPanelOpen,
                detailInflight, detailFetchCount, lastDetailAnswer>>

bookmarkVars == <<bookmarks, storage, bookmarksLoaded, lastToasts, lastSave,
                  lastBookmarkOp, prevBookmarks>>

\* The side branches, which no map, hover or selection handler touches.
discoverVars == <<historyRef, discoverPicks, lastDiscover>>

\* useOfflineStatus and OfflineIndicator
indicatorVars == <<isOnline, wasOffline, showReconnected, reconnectTimers,
                   reconnectTimerCount, effectDeps, effectTimer,
                   onlineListener, batchedUpdates, networkEvents>>

sideVars == <<bookmarkVars, discoverVars, indicatorVars, mounted, pureCall>>

vars == <<placesVars, hoverVars, selectVars, sideVars>>

Min(a, b) == IF a < b THEN a ELSE b
Max(a, b) == IF a > b THEN a ELSE b
Abs(x) == IF x < 0 THEN -x ELSE x

\* ----------------------------------------------------------- pure functions

\* Mutant: the radius is capped but has no floor.
calculateRadius_NoFloor(diag) == Min(diag \div 2, MAX_RADIUS)

\* Math.min(Math.max(distance, 8000), 10000), distance = diagonal / 2
calculateRadius(diag) == Min(Max(diag \div 2, MIN_RADIUS), MAX_RADIUS)

\* Number.prototype.toFixed(3) of a coordinate given in 0.0001 degree: the
\* sign is emitted whenever the number is below zero ("-0.000" for -0.0003),
\* the magnitude is rounded to the nearest thousandth, ties upwards.
toFixed3(x) == [neg |-> x < 0, milli |-> (Abs(x) + 5) \div 10]

\* `${center.lat.toFixed(3)}:${center.lng.toFixed(3)}:${radius}:${language}`
FetchKey(lat, lng, radius, lang) == <<toFixed3(lat), toFixed3(lng), radius, lang>>

\* The coordinate rounded to 3 decimals as a number (thousandths of a degree).
Round3(x) == IF x < 0 THEN -((Abs(x) + 5) \div 10) ELSE (x + 5) \div 10

\* The % operator of the language: the remainder takes the sign of the
\* dividend (-10 % 360 is -10).
JsRem(a, n) == IF a >= 0 THEN a % n ELSE -((-a) % n)

\* Math.min(90, Math.max(-90, lat))
safeLat(lat) == Min(90, Max(-90, lat))

\* Mutant: the longitude is wrapped with one remainder only.
safeLon_SingleRem(lon) == JsRem(lon + 180, 360) - 180

\* ((((lon + 180) % 360) + 360) % 360) - 180
safeLon(lon) == JsRem(JsRem(lon + 180, 360) + 360, 360) - 180

\* The statements inside `try` throw: fetch() rejects, response.json()
\* rejects, or `data.query` is read off null.
ThrowsInTry(resp) ==
    \/ resp.transport = "rejected"
    \/ resp.body.kind \in {"unparsable", "null"}

\* Mutant: the catch block rethrows.
RaisedToCaller_Rethrows(resp) == ThrowsInTry(resp)

\* What leaves the function as a raised error: the catch block logs and
\* returns, so nothing does.
RaisedToCaller(resp) == FALSE

\* data.query?.geosearch as the answer of the geosearch request
GeoOutcome(resp) ==
    [ok |-> ~ThrowsInTry(resp),
     list |-> IF resp.body.kind = "query" THEN resp.body.list ELSE <<>>]

\* Mutant: a page is taken as found whenever the body was parsed.
PageFound_AnyBody(resp, pageid) == ~ThrowsInTry(resp)

\* data.query?.pages?.[pageid] is there
PageFound(resp, pageid) ==
    /\ ~ThrowsInTry(resp)
    /\ resp.body.kind = "query"
    /\ pageid \in resp.body.pages

\* fetchNearbyPlaces: the parsed list, [] when fetch or json() throws.
fetchNearbyPlaces(out) == IF out.ok THEN out.list ELSE <<>>

\* fetchArticleDetails: the page's article in that language, null when the
\* page is unknown or the request fails.
fetchArticleDetails(pageid, lang, found) ==
    IF found THEN [pageid |-> pageid, lang |-> lang] ELSE NoArticle

\* getCacheKey: `${lang}:${pageid}`
getCacheKey(pageid, lang) == <<lang, pageid>>

\* Map.prototype.set and Map.prototype.delete on the cache
CacheSet(cache, key, article) ==
    [k \in DOMAIN cache \cup {key} |-> IF k = key THEN article ELSE cache[k]]
CacheDelete(cache, key) == [k \in DOMAIN cache \ {key} |-> cache[k]]

\* Mutant: addToCache never evicts.
EvictOldest_Never(cache, order) == [cache |-> cache, order |-> order]

\* The while loop of addToCache: shift the oldest key off the order list and
\* delete it from the map as long as the list holds MAX_CACHE_SIZE keys.
RECURSIVE EvictOldest(_, _)
EvictOldest(cache, order) ==
    IF Len(order) >= MAX_CACHE_SIZE
    THEN EvictOldest(CacheDelete(cache, Head(order)), Tail(order))
    ELSE [cache |-> cache, order |-> order]

\* addToCache(key, article): evict, then set and push.
addToCache(cache, order, key, article) ==
    LET e == EvictOldest(cache, order)
    IN  [cache |-> CacheSet(e.cache, key, article),
         order |-> Append(e.order, key)]

\* ------------------------------------------------------------------- Init
InitHooks ==
    /\ mapRef = NoMap
    /\ language \in Languages
    /\ places = <<>>
    /\ isLoadingPlaces = FALSE
    /\ isScanDisabled = FALSE
    /\ fetchTimeoutRef = 0
    /\ pendingTimers = {}
    /\ timerCount = 0
    /\ abortControllerRef = 0
    /\ aborted = {}
    /\ lastFetchKeyRef = NoKey
    /\ inflight = {}
    /\ fetchCount = 0
    /\ lastResponse = NoResponse
    /\ lastCallView = NoMap
    /\ hoveredArticle = NoArticle
    /\ hoverPosition = NoPosition
    /\ isLoadingHover = FALSE
    /\ hoverTimeoutRef = 0
    /\ hoverTimers = {}
    /\ hoverTimerCount = 0
    /\ hoverAbortControllerRef = 0
    /\ hoverAborted = {}
    /\ hoverInflight = {}
    /\ hoverFetchCount = 0
    /\ lastHoverCall = [calls |-> 0, pageid |-> 0]
    /\ selectedPlace = 0
    /\ selectedArticle = NoArticle
    /\ isLoadingArticle = FALSE
    /\ isPanelOpen = FALSE
    /\ detailInflight = {}
    /\ detailFetchCount = 0
    /\ lastDetailAnswer = "none"
    /\ bookmarks = <<>>
    /\ bookmarksLoaded = FALSE
    /\ lastToasts = <<>>
    /\ lastSave = "none"
    /\ lastBookmarkOp = [op |-> "none", pageid |-> 0]
    /\ prevBookmarks = <<>>
    /\ historyRef = [t \in Themes |-> <<>>]
    /\ discoverPicks = [t \in Themes |-> <<>>]
    /\ lastDiscover = [theme |-> "", result |-> FALSE]
    /\ mounted = TRUE

\* useOfflineStatus and OfflineIndicator after their first render and its
\* effects, in a browser whose navigator.onLine is `online`.
InitIndicator(online, batched) ==
    /\ isOnline = online
    /\ wasOffline = FALSE
    /\ showReconnected = FALSE
    /\ reconnectTimers = {}
    /\ reconnectTimerCount = 0
    /\ effectDeps = <<online, FALSE>>
    /\ effectTimer = 0
    /\ onlineListener = FALSE
    /\ batchedUpdates = batched
    /\ networkEvents = <<>>

\* The map page in a browser that is online.
InitBase ==
    /\ InitHooks
    /\ InitIndicator(TRUE, TRUE)

\* The state after construction: nothing cached, nothing stored yet.
Init ==
    /\ InitBase
    /\ cacheRef = <<>>
    /\ cacheOrderRef = <<>>
    /\ storage = [kind |-> "absent", list |-> <<>>]
    /\ pureCall = NoCall

\* The state after construction in a browser whose storage holds any value.
InitAnyStorage ==
    /\ InitBase
    /\ cacheRef = <<>>
    /\ cacheOrderRef = <<>>
    /\ storage \in StoredValues
    /\ pureCall = NoCall

\* calculateRadius is about to be evaluated on some viewport diagonal.
InitRadius ==
    /\ InitBase
    /\ cacheRef = <<>>
    /\ cacheOrderRef = <<>>
    /\ storage = [kind |-> "absent", list |-> <<>>]
    /\ pureCall \in {[fn |-> "calculateRadius", arg |-> d, result |-> 0,
                       done |-> FALSE] : d \in RadiusDiagonals}

\* fetchNearbyPlaces is about to be called with some coordinate pair.
InitCoordinates ==
    /\ InitBase
    /\ cacheRef = <<>>
    /\ cacheOrderRef = <<>>
    /\ storage = [kind |-> "absent", list |-> <<>>]
    /\ pureCall \in {[fn |-> "fetchNearbyPlaces.gscoord",
                       arg |-> [lat |-> la, lon |-> lo],
                       result |-> [lat |-> 0, lon |-> 0],
                       done |-> FALSE] : la \in QueryLats, lo \in QueryLons}

\* One of the two network functions is about to be called and the service is
\* about to answer in some way.
InitCollaborators ==
    /\ InitBase
    /\ cacheRef = <<>>
    /\ cacheOrderRef = <<>>
    /\ storage = [kind |-> "absent", list |-> <<>>]
    /\ pureCall \in
          {[fn |-> f, arg |-> [pageid |-> p, response |-> r],
            result |-> [raised |-> FALSE, places |-> <<>>,
                        article |-> NoArticle],
            done |-> FALSE] :
             f \in {"fetchNearbyPlaces", "fetchArticleDetails"},
             p \in RequestedIds, r \in HttpResponses}

\* The indicator in a browser that is online or offline at mount, under a
\* renderer that applies the updates of a native event handler together or
\* one by one.
InitAnyConnectivity ==
    /\ InitHooks
    /\ \E online \in BOOLEAN, batched \in BOOLEAN :
          InitIndicator(online, batched)
    /\ cacheRef = <<>>
    /\ cacheOrderRef = <<>>
    /\ storage = [kind |-> "absent", list |-> <<>>]
    /\ pureCall = NoCall

\* The cache after n earlier hovers of the places 101 .. 100 + n, in that
\* order, each fetched and admitted under language lang.
PrefilledOrder(n, lang) == [i \in 1..n |-> getCacheKey(100 + i, lang)]
PrefilledCache(n, lang) ==
    [k \in {getCacheKey(100 + i, lang) : i \in 1..n} |->
        fetchArticleDetails(k[2], lang, TRUE)]

\* A session in which the cache is one entry short of its capacity, or full.
InitWarmCache ==
    /\ InitBase
    /\ \E n \in {MAX_CACHE_SIZE - 1, MAX_CACHE_SIZE} :
          /\ cacheRef = PrefilledCache(n, language)
          /\ cacheOrderRef = PrefilledOrder(n, language)
    /\ storage = [kind |-> "absent", list |-> <<>>]
    /\ pureCall = NoCall

\* ------------------------------------------------------------ useMapPlaces

\* Mutant: the zoom gate disables scanning but forgets setPlaces([]).
ScanDisabledBranch_KeepsPlaces(lastKey) ==
    /\ isScanDisabled' = TRUE
    /\ lastFetchKeyRef' = lastKey
    /\ UNCHANGED <<places, isLoadingPlaces, abortControllerRef, aborted,
                   inflight, fetchCount>>

\* The zoom gate of fetchPlacesForBounds: scanning is disabled and the point
\* set cleared; nothing else is touched.
ScanDisabledBranch(lastKey) ==
    /\ isScanDisabled' = TRUE
    /\ places' = <<>>
    /\ lastFetchKeyRef' = lastKey
    /\ UNCHANGED <<isLoadingPlaces, abortControllerRef, aborted, inflight,
                   fetchCount>>

\* fetchKey === lastFetchKeyRef.current
IsDuplicateKey(fetchKey, lastKey) == fetchKey = lastKey

\* Abort the controller in the ref, install a new one, remember the key, raise
\* the loading flag and call fetchNearbyPlaces(center.lat, center.lng, radius,
\* language).
IssuePointsFetch(lang, radius, fetchKey) ==
    /\ fetchCount < MaxFetches
    /\ aborted' = IF abortControllerRef # 0
                  THEN aborted \cup {abortControllerRef}
                  ELSE aborted
    /\ fetchCount' = fetchCount + 1
    /\ abortControllerRef' = fetchCount + 1
    /\ lastFetchKeyRef' = fetchKey
    /\ isLoadingPlaces' = TRUE
    /\ inflight' = inflight \cup
           {[id |-> fetchCount + 1, lat |-> mapRef.lat, lng |-> mapRef.lng,
             radius |-> radius, lang |-> lang]}
    /\ UNCHANGED places

\* The body of fetchPlacesForBounds up to its await, run by a closure that
\* captured `lang`, with `lastKey` the content of lastFetchKeyRef on entry.
FetchPlacesForBounds(lang, lastKey) ==
    IF mapRef = NoMap
    THEN /\ lastFetchKeyRef' = lastKey
         /\ UNCHANGED <<places, isLoadingPlaces, isScanDisabled,
                        abortControllerRef, aborted, inflight, fetchCount>>
    ELSE IF mapRef.zoom < MIN_SCAN_ZOOM
    THEN ScanDisabledBranch(lastKey)
    ELSE LET radius == calculateRadius(mapRef.diag)
             fetchKey == FetchKey(mapRef.lat, mapRef.lng, radius, lang)
         IN  /\ isScanDisabled' = FALSE
             /\ IF IsDuplicateKey(fetchKey, lastKey)
                THEN /\ lastFetchKeyRef' = lastKey
                     /\ UNCHANGED <<places, isLoadingPlaces, abortControllerRef,
                                    aborted, inflight, fetchCount>>
                ELSE IssuePointsFetch(lang, radius, fetchKey)

\* The map widget is created and stored in mapRef.
MapCreated ==
    /\ mounted
    /\ mapRef = NoMap
    /\ \E z \in Zooms, la \in Lats, lo \in Lngs, d \in Diagonals :
          mapRef' = [zoom |-> z, lat |-> la, lng |-> lo, diag |-> d]
    /\ UNCHANGED <<language, places, isLoadingPlaces, isScanDisabled,
                   fetchTimeoutRef, pendingTimers, timerCount,
                   abortControllerRef, aborted, lastFetchKeyRef, inflight,
                   fetchCount, lastResponse, lastCallView>>
    /\ UNCHANGED <<hoverVars, selectVars, sideVars>>

\* Mutant: debouncedFetch without the clearTimeout of the previous timer.
DebouncedFetch_NoClear ==
    /\ timerCount < MaxTimers
    /\ timerCount' = timerCount + 1
    /\ fetchTimeoutRef' = timerCount + 1
    /\ pendingTimers' =
          pendingTimers \cup {[id |-> timerCount + 1, lang |-> language]}

\* debouncedFetch: clear the timer in the ref, set a new one whose callback
\* is the fetchPlacesForBounds closure of the current render.
DebouncedFetch ==
    /\ timerCount < MaxTimers
    /\ timerCount' = timerCount + 1
    /\ fetchTimeoutRef' = timerCount + 1
    /\ pendingTimers' =
          {t \in pendingTimers : t.id # fetchTimeoutRef}
             \cup {[id |-> timerCount + 1, lang |-> language]}

\* Mutant: the viewport-change handler applies the zoom gate itself, before
\* the debounce.
ViewportChanged_GateAtEvent(z, la, lo, d) ==
    /\ mounted
    /\ mapRef # NoMap
    /\ mapRef' = [zoom |-> z, lat |-> la, lng |-> lo, diag |-> d]
    /\ lastCallView' = mapRef'
    /\ DebouncedFetch
    /\ IF z < MIN_SCAN_ZOOM
       THEN isScanDisabled' = TRUE /\ places' = <<>>
       ELSE UNCHANGED <<places, isScanDisabled>>
    /\ UNCHANGED <<language, isLoadingPlaces, abortControllerRef, aborted,
                   lastFetchKeyRef, inflight, fetchCount, lastResponse>>
    /\ UNCHANGED <<hoverVars, selectVars, sideVars>>

\* The map settles on a new viewport (moveend / zoomend) and the widget
\* calls the debounced fetch.
ViewportChanged(z, la, lo, d) ==
    /\ mounted
    /\ mapRef # NoMap
    /\ mapRef' = [zoom |-> z, lat |-> la, lng |-> lo, diag |-> d]
    /\ lastCallView' = mapRef'
    /\ DebouncedFetch
    /\ UNCHANGED <<language, places, isLoadingPlaces, isScanDisabled,
                   abortControllerRef, aborted, lastFetchKeyRef, inflight,
                   fetchCount, lastResponse>>
    /\ UNCHANGED <<hoverVars, selectVars, sideVars>>

\* A pending debounce timer fires and runs fetchPlacesForBounds.
DebounceTimerFires(t) ==
    /\ t \in pendingTimers
    /\ pendingTimers' = pendingTimers \ {t}
    /\ FetchPlacesForBounds(t.lang, lastFetchKeyRef)
    /\ UNCHANGED <<mapRef, language, fetchTimeoutRef, timerCount,
                   lastResponse, lastCallView>>
    /\ UNCHANGED <<hoverVars, selectVars, sideVars>>

\* Mutant: triggerImmediateFetch without the reset of lastFetchKeyRef.
TriggerImmediateFetch_KeepsKey ==
    /\ mounted
    /\ FetchPlacesForBounds(language, lastFetchKeyRef)
    /\ UNCHANGED <<mapRef, language, fetchTimeoutRef, pendingTimers,
                   timerCount, lastResponse, lastCallView>>
    /\ UNCHANGED <<hoverVars, selectVars, sideVars>>

\* triggerImmediateFetch: reset the remembered key, then fetch at once.
TriggerImmediateFetch ==
    /\ mounted
    /\ FetchPlacesForBounds(language, NoKey)
    /\ UNCHANGED <<mapRef, language, fetchTimeoutRef, pendingTimers,
                   timerCount, lastResponse, lastCallView>>
    /\ UNCHANGED <<hoverVars, selectVars, sideVars>>

\* abortControllerRef.current?.signal.aborted, read after the await
PointsRequestAborted ==
    abortControllerRef # 0 /\ abortControllerRef \in aborted

\* Mutant: the continuation without its finally block.
PointsFetchResolves_NoFinally(f, out) ==
    /\ f \in inflight
    /\ inflight' = inflight \ {f}
    /\ lastResponse' = out
    /\ LET nearbyPlaces == fetchNearbyPlaces(out)
       IN  places' = IF PointsRequestAborted THEN places ELSE nearbyPlaces
    /\ UNCHANGED <<mapRef, language, isLoadingPlaces, isScanDisabled,
                   fetchTimeoutRef, pendingTimers, timerCount,
                   abortControllerRef, aborted, lastFetchKeyRef, fetchCount,
                   lastCallView>>
    /\ UNCHANGED <<hoverVars, selectVars, sideVars>>

\* The continuation of fetchPlacesForBounds after `await fetchNearbyPlaces`:
\* fetchNearbyPlaces turns a failure into [], the check reads the controller
\* that is in the ref now, and finally always clears the loading flag.
PointsFetchResolves(f, out) ==
    /\ f \in inflight
    /\ inflight' = inflight \ {f}
    /\ lastResponse' = out
    /\ LET nearbyPlaces == fetchNearbyPlaces(out)
       IN  places' = IF PointsRequestAborted THEN places ELSE nearbyPlaces
    /\ isLoadingPlaces' = FALSE
    /\ UNCHANGED <<mapRef, language, isScanDisabled, fetchTimeoutRef,
                   pendingTimers, timerCount, abortControllerRef, aborted,
                   lastFetchKeyRef, fetchCount, lastCallView>>
    /\ UNCHANGED <<hoverVars, selectVars, sideVars>>

\* The language prop changes: callbacks are re-created with the new value and
\* the language effect of useHoverPreview clears the cache.
LanguageChanged(l) ==
    /\ mounted
    /\ l # language
    /\ language' = l
    /\ cacheRef' = <<>>
    /\ cacheOrderRef' = <<>>
    /\ UNCHANGED <<mapRef, places, isLoadingPlaces, isScanDisabled,
                   fetchTimeoutRef, pendingTimers, timerCount,
                   abortControllerRef, aborted, lastFetchKeyRef, inflight,
                   fetchCount, lastResponse, lastCallView>>
    /\ UNCHANGED <<hoveredArticle, hoverPosition, isLoadingHover,
                   hoverTimeoutRef, hoverTimers, hoverTimerCount,
                   hoverAbortControllerRef, hoverAborted, hoverInflight,
                   hoverFetchCount, lastHoverCall>>
    /\ UNCHANGED <<selectVars, sideVars>>

MapMoves ==
    \E z \in Zooms, la \in Lats, lo \in Lngs, d \in Diagonals :
       ViewportChanged(z, la, lo, d)
DebounceTimer == \E t \in pendingTimers : DebounceTimerFires(t)
PointsAnswer ==
    \E f \in inflight, out \in NetOutcomes : PointsFetchResolves(f, out)
LanguageSwitch == \E l \in Languages : LanguageChanged(l)

NextPlaces ==
    \/ MapCreated
    \/ MapMoves
    \/ DebounceTimer
    \/ TriggerImmediateFetch
    \/ PointsAnswer
    \/ LanguageSwitch

SpecPlaces == Init /\ [][NextPlaces]_vars

\* A timer that stays pending fires: the runtime runs every timer that is not
\* cleared.
SpecPlacesFair == SpecPlaces /\ WF_vars(DebounceTimer)

\* In addition the network answers every request it was sent.
SpecPlacesLive ==
    SpecPlaces /\ WF_vars(DebounceTimer) /\ WF_vars(PointsAnswer)

\* --------------------------------------------------------- useHoverPreview

\* Mutant: clearTimeout is never called.
HoverTimersCleared_None == hoverTimers

\* clearTimeout(hoverTimeoutRef.current)
HoverTimersCleared == {t \in hoverTimers : t.id # hoverTimeoutRef}

\* abortControllerRef.current.abort(), when the ref holds a controller
HoverControllerAborted ==
    IF hoverAbortControllerRef # 0
    THEN hoverAborted \cup {hoverAbortControllerRef}
    ELSE hoverAborted

\* Mutant: a cache hit does not show the cached record.
HoverHitBranch_KeepsArticle(cacheKey) ==
    /\ isLoadingHover' = FALSE
    /\ hoverTimers' = HoverTimersCleared
    /\ UNCHANGED <<hoveredArticle, hoverTimeoutRef, hoverTimerCount, cacheRef,
                   cacheOrderRef>>

\* Mutant: a cache hit moves the key to the young end of the order list, as
\* a least-recently-used cache would.
HoverHitBranch_Refreshes(cacheKey) ==
    /\ hoveredArticle' = cacheRef[cacheKey]
    /\ isLoadingHover' = FALSE
    /\ hoverTimers' = HoverTimersCleared
    /\ cacheOrderRef' =
          Append(SelectSeq(cacheOrderRef, LAMBDA k : k # cacheKey), cacheKey)
    /\ UNCHANGED <<hoverTimeoutRef, hoverTimerCount, cacheRef>>

\* The cache-hit branch of handleMarkerHover: show the cached article, drop
\* the loading flag, return.  The timer was cleared on entry.
HoverHitBranch(cacheKey) ==
    /\ hoveredArticle' = cacheRef[cacheKey]
    /\ isLoadingHover' = FALSE
    /\ hoverTimers' = HoverTimersCleared
    /\ UNCHANGED <<hoverTimeoutRef, hoverTimerCount, cacheRef, cacheOrderRef>>

\* The cache-miss branch of handleMarkerHover: set the timer whose callback
\* captured the place and the language.
HoverMissBranch(pageid) ==
    /\ hoverTimerCount < MaxHoverTimers
    /\ hoverTimerCount' = hoverTimerCount + 1
    /\ hoverTimeoutRef' = hoverTimerCount + 1
    /\ hoverTimers' = HoverTimersCleared \cup
           {[id |-> hoverTimerCount + 1, pageid |-> pageid, lang |-> language]}
    /\ UNCHANGED <<hoveredArticle, isLoadingHover, cacheRef, cacheOrderRef>>

\* handleMarkerHover(place, clientX, clientY) up to setting the timer.
HandleMarkerHover(pageid, pos) ==
    LET cacheKey == getCacheKey(pageid, language)
    IN  /\ mounted
        /\ lastHoverCall.calls < MaxHoverCalls
        /\ lastHoverCall' = [calls |-> lastHoverCall.calls + 1, pageid |-> pageid]
        /\ hoverAborted' = HoverControllerAborted
        /\ hoverPosition' = pos
        /\ IF cacheKey \in DOMAIN cacheRef
           THEN HoverHitBranch(cacheKey)
           ELSE HoverMissBranch(pageid)
        /\ UNCHANGED <<hoverAbortControllerRef, hoverInflight, hoverFetchCount>>
        /\ UNCHANGED <<placesVars, selectVars, sideVars>>

\* The hover timer fires: raise the loading flag, put a new controller in the
\* ref and call fetchArticleDetails(place.pageid, language).
HoverTimerFires(t) ==
    /\ t \in hoverTimers
    /\ hoverFetchCount < MaxHoverFetches
    /\ hoverTimers' = hoverTimers \ {t}
    /\ isLoadingHover' = TRUE
    /\ hoverFetchCount' = hoverFetchCount + 1
    /\ hoverAbortControllerRef' = hoverFetchCount + 1
    /\ hoverInflight' = hoverInflight \cup
           {[id |-> hoverFetchCount + 1, pageid |-> t.pageid, lang |-> t.lang]}
    /\ UNCHANGED <<hoveredArticle, hoverPosition, hoverTimeoutRef,
                   hoverTimerCount, hoverAborted, cacheRef, cacheOrderRef,
                   lastHoverCall>>
    /\ UNCHANGED <<placesVars, selectVars, sideVars>>

\* abortControllerRef.current?.signal.aborted, read after the await
HoverRequestAborted ==
    hoverAbortControllerRef # 0 /\ hoverAbortControllerRef \in hoverAborted

\* The continuation of the timer callback after `await fetchArticleDetails`.
HoverFetchResolves(f, found) ==
    /\ f \in hoverInflight
    /\ hoverInflight' = hoverInflight \ {f}
    /\ LET article == fetchArticleDetails(f.pageid, f.lang, found)
           added == addToCache(cacheRef, cacheOrderRef,
                               getCacheKey(f.pageid, f.lang), article)
       IN  IF ~HoverRequestAborted /\ article # NoArticle
           THEN /\ cacheRef' = added.cache
                /\ cacheOrderRef' = added.order
                /\ hoveredArticle' = article
           ELSE UNCHANGED <<cacheRef, cacheOrderRef, hoveredArticle>>
    /\ isLoadingHover' = FALSE
    /\ UNCHANGED <<hoverPosition, hoverTimeoutRef, hoverTimers,
                   hoverTimerCount, hoverAbortControllerRef, hoverAborted,
                   hoverFetchCount, lastHoverCall>>
    /\ UNCHANGED <<placesVars, selectVars, sideVars>>

\* handleMarkerHoverEnd
HandleMarkerHoverEnd ==
    /\ mounted
    /\ hoverTimers' = HoverTimersCleared
    /\ hoverTimeoutRef' = 0
    /\ hoverAborted' = HoverControllerAborted
    /\ hoverAbortControllerRef' = 0
    /\ hoveredArticle' = NoArticle
    /\ hoverPosition' = NoPosition
    /\ isLoadingHover' = FALSE
    /\ UNCHANGED <<hoverTimerCount, cacheRef, cacheOrderRef, hoverInflight,
                   hoverFetchCount, lastHoverCall>>
    /\ UNCHANGED <<placesVars, selectVars, sideVars>>

MarkerHover == \E p \in PageIds, pos \in Cursors : HandleMarkerHover(p, pos)
HoverTimer == \E t \in hoverTimers : HoverTimerFires(t)
HoverAnswer ==
    \E f \in hoverInflight, found \in BOOLEAN : HoverFetchResolves(f, found)

NextHover ==
    \/ MarkerHover
    \/ HoverTimer
    \/ HoverAnswer
    \/ HandleMarkerHoverEnd
    \/ LanguageSwitch

SpecHover == Init /\ [][NextHover]_vars

\* The hover hook late in a session, when the cache has filled up.
SpecHoverWarm == InitWarmCache /\ [][NextHover]_vars

\* ------------------------------------------------------- MapView selection

\* handleMarkerClick(place) up to `await fetchArticleDetails`.
HandleMarkerClick(pageid) ==
    /\ mounted
    /\ detailFetchCount < MaxDetailFetches
    /\ selectedPlace' = pageid
    /\ isPanelOpen' = TRUE
    /\ isLoadingArticle' = TRUE
    /\ detailFetchCount' = detailFetchCount + 1
    /\ detailInflight' = detailInflight \cup
           {[id |-> detailFetchCount + 1, pageid |-> pageid, lang |-> language]}
    /\ UNCHANGED <<selectedArticle, lastDetailAnswer>>
    /\ UNCHANGED <<placesVars, hoverVars, sideVars>>

\* Mutant: an absent answer leaves the article state as it was.
DetailFetchResolves_KeepsOnAbsent(f, found) ==
    /\ f \in detailInflight
    /\ detailInflight' = detailInflight \ {f}
    /\ lastDetailAnswer' = IF found THEN "found" ELSE "absent"
    /\ selectedArticle' = IF found
                           THEN fetchArticleDetails(f.pageid, f.lang, found)
                           ELSE selectedArticle
    /\ isLoadingArticle' = FALSE
    /\ UNCHANGED <<selectedPlace, isPanelOpen, detailFetchCount>>
    /\ UNCHANGED <<placesVars, hoverVars, sideVars>>

\* The continuation of handleMarkerClick after the await.
DetailFetchResolves(f, found) ==
    /\ f \in detailInflight
    /\ detailInflight' = detailInflight \ {f}
    /\ lastDetailAnswer' = IF found THEN "found" ELSE "absent"
    /\ selectedArticle' = fetchArticleDetails(f.pageid, f.lang, found)
    /\ isLoadingArticle' = FALSE
    /\ UNCHANGED <<selectedPlace, isPanelOpen, detailFetchCount>>
    /\ UNCHANGED <<placesVars, hoverVars, sideVars>>

\* handleClosePanel
HandleClosePanel ==
    /\ mounted
    /\ isPanelOpen' = FALSE
    /\ selectedPlace' = 0
    /\ selectedArticle' = NoArticle
    /\ UNCHANGED <<isLoadingArticle, detailInflight, detailFetchCount,
                   lastDetailAnswer>>
    /\ UNCHANGED <<placesVars, hoverVars, sideVars>>

MarkerClick == \E p \in PageIds : HandleMarkerClick(p)
DetailAnswer ==
    \E f \in detailInflight, found \in BOOLEAN : DetailFetchResolves(f, found)

NextSelect ==
    \/ MarkerClick
    \/ DetailAnswer
    \/ HandleClosePanel
    \/ LanguageSwitch

SpecSelect == Init /\ [][NextSelect]_vars

\* ------------------------------------------------------------ useBookmarks

\* JSON.parse(saved) followed by Array.isArray: the list when the stored text
\* is the JSON of an array; nothing is loaded when the item is missing, when
\* parsing throws or when the value is no array.
ParsedArray(stored) ==
    IF stored.kind = "array"
    THEN [isArray |-> TRUE, list |-> stored.list]
    ELSE [isArray |-> FALSE, list |-> <<>>]

\* Mutant: the loaded array is taken whole.
SliceToMax_Whole(list) == list

\* parsed.slice(0, MAX_BOOKMARKS)
SliceToMax(list) == SubSeq(list, 1, Min(Len(list), MAX_BOOKMARKS))

\* prev.filter((b) => b.pageid !== pageid)
WithoutPage(prev, pageid) == SelectSeq(prev, LAMBDA b : b # pageid)

\* prev.find((b) => b.pageid === pageid)
HasPage(prev, pageid) == \E i \in 1..Len(prev) : prev[i] = pageid

\* Mutant: the capacity test lets one more in.
IsAtCapacity_OffByOne(prev) == Len(prev) > MAX_BOOKMARKS

\* Mutant: the capacity test never rejects.
IsAtCapacity_Never(prev) == FALSE

\* prev.length >= MAX_BOOKMARKS
IsAtCapacity(prev) == Len(prev) >= MAX_BOOKMARKS

\* Mutant: saveToStorage stores the collection as it was before the update.
SaveToStorage_Stale(updated, said, writeOk) ==
    IF writeOk
    THEN /\ storage' = [kind |-> "array", list |-> bookmarks]
         /\ lastSave' = "written"
         /\ lastToasts' = said
    ELSE /\ storage' = storage
         /\ lastSave' = "failed"
         /\ lastToasts' = Append(said, "Failed to save bookmark")

\* Mutant: a failed write is swallowed without a toast.
SaveToStorage_Silent(updated, said, writeOk) ==
    IF writeOk
    THEN /\ storage' = [kind |-> "array", list |-> updated]
         /\ lastSave' = "written"
         /\ lastToasts' = said
    ELSE /\ storage' = storage
         /\ lastSave' = "failed"
         /\ lastToasts' = said

\* saveToStorage(updated) after the toasts `said`: setItem stores the JSON of
\* the list, or throws, which is caught and reported by a toast.
SaveToStorage(updated, said, writeOk) ==
    IF writeOk
    THEN /\ storage' = [kind |-> "array", list |-> updated]
         /\ lastSave' = "written"
         /\ lastToasts' = said
    ELSE /\ storage' = storage
         /\ lastSave' = "failed"
         /\ lastToasts' = Append(said, "Failed to save bookmark")

\* The load effect, run once after mount.
LoadBookmarks ==
    /\ mounted
    /\ ~bookmarksLoaded
    /\ bookmarksLoaded' = TRUE
    /\ LET parsed == ParsedArray(storage)
       IN  bookmarks' = IF parsed.isArray
                        THEN SliceToMax(parsed.list)
                        ELSE bookmarks
    /\ lastBookmarkOp' = [op |-> "load", pageid |-> 0]
    /\ prevBookmarks' = bookmarks
    /\ UNCHANGED <<storage, lastToasts, lastSave>>
    /\ UNCHANGED <<placesVars, hoverVars, selectVars, discoverVars,
                   indicatorVars, mounted, pureCall>>

\* toggleBookmark(place); writeOk tells whether localStorage.setItem succeeds.
ToggleBookmark(pageid, writeOk) ==
    /\ mounted
    /\ bookmarksLoaded
    /\ lastBookmarkOp' = [op |-> "toggle", pageid |-> pageid]
    /\ prevBookmarks' = bookmarks
    /\ IF HasPage(bookmarks, pageid)
       THEN LET updated == WithoutPage(bookmarks, pageid)
            IN  /\ bookmarks' = updated
                /\ SaveToStorage(updated, <<"Bookmark removed">>, writeOk)
       ELSE IF IsAtCapacity(bookmarks)
       THEN /\ lastToasts' = <<"Maximum 100 bookmarks allowed">>
            /\ lastSave' = "none"
            /\ UNCHANGED <<bookmarks, storage>>
       ELSE LET updated == Append(bookmarks, pageid)
            IN  /\ bookmarks' = updated
                /\ SaveToStorage(updated, <<"Bookmark added">>, writeOk)
    /\ UNCHANGED bookmarksLoaded
    /\ UNCHANGED <<placesVars, hoverVars, selectVars, discoverVars,
                   indicatorVars, mounted, pureCall>>

\* removeBookmark(pageid)
RemoveBookmark(pageid, writeOk) ==
    /\ mounted
    /\ bookmarksLoaded
    /\ lastBookmarkOp' = [op |-> "remove", pageid |-> pageid]
    /\ prevBookmarks' = bookmarks
    /\ LET updated == WithoutPage(bookmarks, pageid)
       IN  /\ bookmarks' = updated
           /\ SaveToStorage(updated, <<>>, writeOk)
    /\ UNCHANGED bookmarksLoaded
    /\ UNCHANGED <<placesVars, hoverVars, selectVars, discoverVars,
                   indicatorVars, mounted, pureCall>>

Toggle == \E p \in BookmarkIds, writeOk \in BOOLEAN : ToggleBookmark(p, writeOk)
Remove == \E p \in BookmarkIds, writeOk \in BOOLEAN : RemoveBookmark(p, writeOk)

NextBookmarks ==
    \/ LoadBookmarks
    \/ Toggle
    \/ Remove

SpecBookmarks == InitAnyStorage /\ [][NextBookmarks]_vars

\* ------------------------------------------------------------ useDiscovery

\* locations.map((_, i) => i)
AllIndices(theme) == 0..(LocationCount[theme] - 1)

\* Mutant: the history is not consulted.
AvailableIndices_All(theme, history) == AllIndices(theme)

\* locations.map((_, i) => i).filter((i) => !history.includes(i))
AvailableIndices(theme, history) ==
    {i \in AllIndices(theme) : \A k \in 1..Len(history) : history[k] # i}

\* availableIndices.length > 0 ? availableIndices : all indices
IndicesToChooseFrom(theme, history) ==
    IF AvailableIndices(theme, history) # {}
    THEN AvailableIndices(theme, history)
    ELSE AllIndices(theme)

\* Mutant: the history is never cut.
SliceLast_Whole(list, n) == list

\* list.slice(-n)
SliceLast(list, n) ==
    IF Len(list) <= n THEN list ELSE SubSeq(list, Len(list) - n + 1, Len(list))

\* Picks made so far in the themes ts.
RECURSIVE PicksIn(_)
PicksIn(ts) ==
    IF ts = {} THEN 0
    ELSE LET th == CHOOSE x \in ts : TRUE
         IN  Len(discoverPicks[th]) + PicksIn(ts \ {th})

DiscoverCalls == PicksIn(Themes)

\* Mutant: one history shared by all themes.
HandleThemedDiscover_SharedHistory(theme, randomIndex) ==
    /\ mounted
    /\ IF mapRef = NoMap
       THEN /\ lastDiscover' = [theme |-> theme, result |-> FALSE]
            /\ UNCHANGED <<historyRef, discoverPicks>>
       ELSE LET history == historyRef[theme]
                newHistory == SliceLast(Append(history, randomIndex), HISTORY_SIZE)
            IN  /\ DiscoverCalls < MaxDiscoverCalls
                /\ randomIndex \in IndicesToChooseFrom(theme, history)
                /\ historyRef' = [u \in Themes |-> newHistory]
                /\ discoverPicks' =
                      [discoverPicks EXCEPT ![theme] = Append(@, randomIndex)]
                /\ lastDiscover' = [theme |-> theme, result |-> TRUE]
    /\ UNCHANGED <<placesVars, hoverVars, selectVars, bookmarkVars,
                   indicatorVars, mounted, pureCall>>

\* handleThemedDiscover(theme), randomIndex being the index that Math.random
\* selects.  map.flyTo asks the widget to move; the move shows up later as a
\* viewport change.
HandleThemedDiscover(theme, randomIndex) ==
    /\ mounted
    /\ IF mapRef = NoMap
       THEN /\ lastDiscover' = [theme |-> theme, result |-> FALSE]
            /\ UNCHANGED <<historyRef, discoverPicks>>
       ELSE LET history == historyRef[theme]
                newHistory == SliceLast(Append(history, randomIndex), HISTORY_SIZE)
            IN  /\ DiscoverCalls < MaxDiscoverCalls
                /\ randomIndex \in IndicesToChooseFrom(theme, history)
                /\ historyRef' = [historyRef EXCEPT ![theme] = newHistory]
                /\ discoverPicks' =
                      [discoverPicks EXCEPT ![theme] = Append(@, randomIndex)]
                /\ lastDiscover' = [theme |-> theme, result |-> TRUE]
    /\ UNCHANGED <<placesVars, hoverVars, selectVars, bookmarkVars,
                   indicatorVars, mounted, pureCall>>

ThemedDiscover ==
    \E t \in Themes : \E i \in AllIndices(t) : HandleThemedDiscover(t, i)

NextDiscovery ==
    \/ MapCreated
    \/ ThemedDiscover

SpecDiscovery == Init /\ [][NextDiscovery]_vars

\* ---------------------------------------------------------------- teardown

\* The cleanup effects of useMapPlaces and useHoverPreview at unmount: each
\* clears the timer its ref names and aborts the controller its ref holds.
Unmount ==
    /\ mounted
    /\ mounted' = FALSE
    /\ pendingTimers' = {t \in pendingTimers : t.id # fetchTimeoutRef}
    /\ aborted' = IF abortControllerRef # 0
                  THEN aborted \cup {abortControllerRef}
                  ELSE aborted
    /\ hoverTimers' = HoverTimersCleared
    /\ hoverAborted' = HoverControllerAborted
    /\ UNCHANGED <<mapRef, language, places, isLoadingPlaces, isScanDisabled,
                   fetchTimeoutRef, timerCount, abortControllerRef,
                   lastFetchKeyRef, inflight, fetchCount, lastResponse,
                   lastCallView>>
    /\ UNCHANGED <<hoveredArticle, hoverPosition, isLoadingHover,
                   hoverTimeoutRef, hoverTimerCount, hoverAbortControllerRef,
                   cacheRef, cacheOrderRef, hoverInflight, hoverFetchCount,
                   lastHoverCall>>
    /\ UNCHANGED <<selectVars, bookmarkVars, discoverVars, indicatorVars,
                   pureCall>>

NextPlacesTeardown ==
    \/ NextPlaces
    \/ Unmount

NextHoverTeardown ==
    \/ NextHover
    \/ Unmount

\* The hooks with the unmount of their component.
SpecPlacesTeardown == Init /\ [][NextPlacesTeardown]_vars
SpecHoverTeardown == Init /\ [][NextHoverTeardown]_vars

\* --------------------------------------------------- calculateRadius alone

ComputeRadius ==
    /\ pureCall.fn = "calculateRadius"
    /\ ~pureCall.done
    /\ pureCall' = [pureCall EXCEPT !.result = calculateRadius(pureCall.arg),
                                    !.done = TRUE]
    /\ UNCHANGED <<placesVars, hoverVars, selectVars, bookmarkVars,
                   discoverVars, indicatorVars, mounted>>

SpecRadius == InitRadius /\ [][ComputeRadius]_vars

\* ------------------------------------- useOfflineStatus, OfflineIndicator

\* The state of the two in one record.
IndicatorState ==
    [isOnline |-> isOnline, wasOffline |-> wasOffline,
     showReconnected |-> showReconnected, timers |-> reconnectTimers,
     timerCount |-> reconnectTimerCount, effectDeps |-> effectDeps,
     effectTimer |-> effectTimer, listener |-> onlineListener]

\* The state after the step is the record st.
IndicatorBecomes(st) ==
    /\ isOnline' = st.isOnline
    /\ wasOffline' = st.wasOffline
    /\ showReconnected' = st.showReconnected
    /\ reconnectTimers' = st.timers
    /\ reconnectTimerCount' = st.timerCount
    /\ effectDeps' = st.effectDeps
    /\ effectTimer' = st.effectTimer
    /\ onlineListener' = st.listener

\* The effects of the committed render.  When isOnline or wasOffline differ
\* from the values the indicator's effect last ran for, its cleanup clears
\* the timer it had set and the effect runs again: online after having been
\* offline, it shows the notice and sets the 3 s timer.  The effect of
\* useOfflineStatus registers the handlers of that render.
RunEffects(st) ==
    LET deps == <<st.isOnline, st.wasOffline>>
        cleared == st.timers \ {st.effectTimer}
    IN  IF deps = st.effectDeps
        THEN st
        ELSE IF st.isOnline /\ st.wasOffline
        THEN [st EXCEPT !.showReconnected = TRUE,
                        !.timerCount = @ + 1,
                        !.timers = cleared \cup {st.timerCount + 1},
                        !.effectTimer = st.timerCount + 1,
                        !.effectDeps = deps,
                        !.listener = st.wasOffline]
        ELSE [st EXCEPT !.timers = cleared,
                        !.effectTimer = 0,
                        !.effectDeps = deps,
                        !.listener = st.wasOffline]

\* handleOffline: setIsOnline(false); setWasOffline(true).  Effects still
\* pending are run before a render; a renderer that does not batch renders
\* after each of the two updates.
HandleOffline(st) ==
    LET flushed == RunEffects(st)
    IN  IF batchedUpdates
        THEN [flushed EXCEPT !.isOnline = FALSE, !.wasOffline = TRUE]
        ELSE [RunEffects([flushed EXCEPT !.isOnline = FALSE])
                 EXCEPT !.wasOffline = TRUE]

\* handleOnline as registered: setIsOnline(true); if the wasOffline it
\* captured is true, setWasOffline(false).
HandleOnline(st) ==
    LET flushed == RunEffects(st)
        captured == st.listener
    IN  IF batchedUpdates
        THEN [flushed EXCEPT !.isOnline = TRUE,
                             !.wasOffline = IF captured THEN FALSE ELSE @]
        ELSE LET first == RunEffects([flushed EXCEPT !.isOnline = TRUE])
             IN  IF captured THEN [first EXCEPT !.wasOffline = FALSE] ELSE first

\* The browser loses its connection and dispatches 'offline'.
OfflineEvent ==
    /\ isOnline
    /\ Len(networkEvents) < MaxNetworkEvents
    /\ networkEvents' = Append(networkEvents, "offline")
    /\ IndicatorBecomes(HandleOffline(IndicatorState))
    /\ UNCHANGED batchedUpdates
    /\ UNCHANGED <<placesVars, hoverVars, selectVars, bookmarkVars,
                   discoverVars, mounted, pureCall>>

\* The browser regains its connection and dispatches 'online'.
OnlineEvent ==
    /\ ~isOnline
    /\ Len(networkEvents) < MaxNetworkEvents
    /\ networkEvents' = Append(networkEvents, "online")
    /\ IndicatorBecomes(HandleOnline(IndicatorState))
    /\ UNCHANGED batchedUpdates
    /\ UNCHANGED <<placesVars, hoverVars, selectVars, bookmarkVars,
                   discoverVars, mounted, pureCall>>

\* The effects of the last committed render run.
EffectsRun ==
    /\ <<isOnline, wasOffline>> # effectDeps
    /\ IndicatorBecomes(RunEffects(IndicatorState))
    /\ UNCHANGED <<batchedUpdates, networkEvents>>
    /\ UNCHANGED <<placesVars, hoverVars, selectVars, bookmarkVars,
                   discoverVars, mounted, pureCall>>

\* A pending 3 s timer fires: setShowReconnected(false).
ReconnectTimerFires(t) ==
    /\ t \in reconnectTimers
    /\ reconnectTimers' = reconnectTimers \ {t}
    /\ showReconnected' = FALSE
    /\ UNCHANGED <<isOnline, wasOffline, reconnectTimerCount, effectDeps,
                   effectTimer, onlineListener, batchedUpdates, networkEvents>>
    /\ UNCHANGED <<placesVars, hoverVars, selectVars, bookmarkVars,
                   discoverVars, mounted, pureCall>>

ReconnectTimer == \E t \in reconnectTimers : ReconnectTimerFires(t)

\* What OfflineIndicator renders.
Notice ==
    IF isOnline /\ ~showReconnected THEN "nothing"
    ELSE IF ~isOnline THEN "offline"
    ELSE "back online"

NextIndicator ==
    \/ OfflineEvent
    \/ OnlineEvent
    \/ EffectsRun
    \/ ReconnectTimer

\* Effects run after each render and timers that stay pending fire.
SpecIndicator ==
    /\ InitAnyConnectivity
    /\ [][NextIndicator]_vars
    /\ WF_vars(EffectsRun)
    /\ WF_vars(ReconnectTimer)

\* ------------------------------------- the query coordinates on their own

\* fetchNearbyPlaces up to building the request: the latitude and longitude
\* that go into gscoord.
ComputeQueryCoordinates ==
    /\ pureCall.fn = "fetchNearbyPlaces.gscoord"
    /\ ~pureCall.done
    /\ pureCall' = [pureCall EXCEPT
                       !.result = [lat |-> safeLat(pureCall.arg.lat),
                                   lon |-> safeLon(pureCall.arg.lon)],
                       !.done = TRUE]
    /\ UNCHANGED <<placesVars, hoverVars, selectVars, bookmarkVars,
                   discoverVars, indicatorVars, mounted>>

SpecCoordinates == InitCoordinates /\ [][ComputeQueryCoordinates]_vars

\* --------------------------------------- the network functions on their own

\* fetchNearbyPlaces from the request to its return.
CallFetchNearbyPlaces ==
    /\ pureCall.fn = "fetchNearbyPlaces"
    /\ ~pureCall.done
    /\ LET resp == pureCall.arg.response
       IN  pureCall' = [pureCall EXCEPT
              !.result = [raised |-> RaisedToCaller(resp),
                          places |-> fetchNearbyPlaces(GeoOutcome(resp)),
                          article |-> NoArticle],
              !.done = TRUE]
    /\ UNCHANGED <<placesVars, hoverVars, selectVars, bookmarkVars,
                   discoverVars, indicatorVars, mounted>>

\* fetchArticleDetails from the request to its return.
CallFetchArticleDetails ==
    /\ pureCall.fn = "fetchArticleDetails"
    /\ ~pureCall.done
    /\ LET resp == pureCall.arg.response
           pageid == pureCall.arg.pageid
       IN  pureCall' = [pureCall EXCEPT
              !.result = [raised |-> RaisedToCaller(resp),
                          places |-> <<>>,
                          article |-> fetchArticleDetails(pageid, language,
                                         PageFound(resp, pageid))],
              !.done = TRUE]
    /\ UNCHANGED <<placesVars, hoverVars, selectVars, bookmarkVars,
                   discoverVars, indicatorVars, mounted>>

NextCollaborators ==
    \/ CallFetchNearbyPlaces
    \/ CallFetchArticleDetails

SpecCollaborators == InitCollaborators /\ [][NextCollaborators]_vars

\* ================================================= claims on the points slot

\* Kinds of step, read off the variables they change.
IsDebounceCall == timerCount' = timerCount + 1
IsTimerRun == timerCount' = timerCount /\ pendingTimers' # pendingTimers
IsImmediateRun ==
    /\ UNCHANGED <<mapRef, language, pendingTimers, timerCount>>
    /\ inflight \subseteq inflight'
IsRun == IsTimerRun \/ IsImmediateRun
\* The points fetch f receives its answer in this step.
PointsResolved(f) == f \in inflight /\ f \notin inflight'
\* The numbers a fetch key's text stands for: "-0.000" and "0.000" are both 0.
KeyValue(key) ==
    <<IF key[1].neg THEN -key[1].milli ELSE key[1].milli,
      IF key[2].neg THEN -key[2].milli ELSE key[2].milli,
      key[3], key[4]>>

\* f has been superseded: a later points fetch was issued, and its key stands
\* for another rounded center, radius or locale.
Superseded(f) ==
    /\ f.id # fetchCount
    /\ lastFetchKeyRef # NoKey
    /\ KeyValue(FetchKey(f.lat, f.lng, f.radius, f.lang)) # KeyValue(lastFetchKeyRef)

\* C1: when a points fetch A was superseded by a fetch B for a different key
\* before A resolved, A's resolution never writes `places`, in either arrival
\* order, and the resolution of the most recently issued fetch B makes
\* `places` B's result; so once both resolved `places` is B's result.
C1_StalePointsSuppressed ==
    [][\A f \in inflight : PointsResolved(f) =>
          IF Superseded(f)
          THEN places' = places
          ELSE f.id = fetchCount => places' = fetchNearbyPlaces(lastResponse')]_vars

\* C5: the completion of a superseded points fetch changes neither `places`
\* nor isLoadingPlaces; while the most recently issued fetch is outstanding
\* isLoadingPlaces stays true.
C5_StaleCompletionKeepsLoading ==
    [][\A f \in inflight : PointsResolved(f) /\ f.id # fetchCount =>
          /\ places' = places
          /\ isLoadingPlaces' = isLoadingPlaces
          /\ (\E g \in inflight' : g.id = fetchCount) => isLoadingPlaces']_vars

C8_DedupSameRoundedKey ==
    [][\A t \in pendingTimers \ pendingTimers' :
          /\ IsTimerRun
          /\ mapRef # NoMap
          /\ mapRef.zoom >= MIN_SCAN_ZOOM
          /\ lastFetchKeyRef # NoKey
          /\ KeyValue(lastFetchKeyRef) =
                <<Round3(mapRef.lat), Round3(mapRef.lng),
                  calculateRadius(mapRef.diag), t.lang>>
          => fetchCount' = fetchCount /\ inflight' = inflight]_vars

\* C9: a run of fetchPlacesForBounds (timer fired or immediate) on an existing
\* map with zoom < 11 disables scanning, empties `places` and issues no fetch;
\* with zoom >= 11 it enables scanning.
C9_ZoomGate ==
    [][IsRun /\ mapRef # NoMap =>
          IF mapRef.zoom < MIN_SCAN_ZOOM
          THEN /\ isScanDisabled'
               /\ places' = <<>>
               /\ fetchCount' = fetchCount
               /\ inflight' = inflight
          ELSE ~isScanDisabled']_vars

\* The gate closed on a non-empty point set.
C9_Witness ==
    /\ mapRef # NoMap
    /\ mapRef.zoom < MIN_SCAN_ZOOM
    /\ isScanDisabled
    /\ places = <<>>
    /\ lastResponse.ok /\ lastResponse.list # <<>>
    /\ inflight = {}

\* C10 as stated: the viewport-change event that brings the zoom below 11
\* empties the point set in the same step.
C10_ClearedAtEvent ==
    [][IsDebounceCall /\ mapRef'.zoom < MIN_SCAN_ZOOM => places' = <<>>]_vars

\* C10 amended: the viewport-change event leaves `places` and isScanDisabled
\* as they are; the point set is emptied when the debounce timer fires with
\* the zoom still below 11.
C10_ClearedWhenTimerFires ==
    [][/\ IsDebounceCall =>
            places' = places /\ isScanDisabled' = isScanDisabled
       /\ IsTimerRun /\ mapRef # NoMap /\ mapRef.zoom < MIN_SCAN_ZOOM =>
            places' = <<>> /\ isScanDisabled']_vars

\* Zoomed out, timer still pending, the points still shown.
C10_Witness ==
    /\ mapRef # NoMap
    /\ mapRef.zoom < MIN_SCAN_ZOOM
    /\ pendingTimers # {}
    /\ places # <<>>
    /\ ~isScanDisabled

\* C11: when the network request behind a points fetch fails, its resolution
\* leaves `places` as it was before and isLoadingPlaces is false afterwards.
C11_FailedFetchKeepsPlaces ==
    [][\A f \in inflight : PointsResolved(f) /\ ~lastResponse'.ok =>
          places' = places /\ ~isLoadingPlaces']_vars

\* C12: a call of triggerImmediateFetch on an existing map with zoom >= 11
\* issues a network fetch for the current viewport in the same step, sets no
\* timer, and does so whatever key lastFetchKeyRef held.
C12_ImmediateBypassesDebounceAndDedup ==
    [][IsImmediateRun /\ mapRef # NoMap /\ mapRef.zoom >= MIN_SCAN_ZOOM =>
          /\ fetchCount' = fetchCount + 1
          /\ timerCount' = timerCount
          /\ pendingTimers' = pendingTimers
          /\ \E f \in inflight' \ inflight :
                /\ f.id = fetchCount'
                /\ f.lat = mapRef.lat
                /\ f.lng = mapRef.lng
                /\ f.radius = calculateRadius(mapRef.diag)
                /\ f.lang = language]_vars

\* Two immediate fetches for one and the same key are outstanding: the second
\* was issued although its key equalled the key of the last issued fetch.
C12_Witness ==
    /\ timerCount = 0
    /\ fetchCount = 2
    /\ \E f, g \in inflight :
          /\ f.id = 1
          /\ g.id = 2
          /\ FetchKey(f.lat, f.lng, f.radius, f.lang) =
                FetchKey(g.lat, g.lng, g.radius, g.lang)

\* ================================================== claims on the hover slot

\* The hover detail fetch f receives its answer in this step.
HoverResolved(f) == f \in hoverInflight /\ f \notin hoverInflight'

\* C2: a hover detail fetch whose controller was aborted, by a later
\* handleMarkerHover or by handleMarkerHoverEnd, inserts nothing into the cache
\* and leaves hoveredArticle alone when it resolves.
C2_CancelledHoverFetchIgnored ==
    [][\A f \in hoverInflight : HoverResolved(f) /\ f.id \in hoverAborted =>
          /\ cacheRef' = cacheRef
          /\ cacheOrderRef' = cacheOrderRef
          /\ hoveredArticle' = hoveredArticle]_vars

\* C4: from handleMarkerHoverEnd until the next handleMarkerHover, that is
\* while hoverPosition is null, hoveredArticle is null, isLoadingHover is
\* false and no hover timer is pending.
C4_NothingShownAfterHoverEnd ==
    hoverPosition = NoPosition =>
        /\ hoveredArticle = NoArticle
        /\ ~isLoadingHover
        /\ hoverTimers = {}

\* Kinds of hover step.
IsHoverCall == lastHoverCall'.calls = lastHoverCall.calls + 1
IsHoverFetchIssued ==
    hoverFetchCount' # hoverFetchCount \/ ~(hoverInflight' \subseteq hoverInflight)

\* C13: at most one hover timer is pending, and it is the timer of the latest
\* handleMarkerHover with no handleMarkerHoverEnd since; a detail fetch is
\* issued only by the firing of that timer, for that hover's place; a
\* handleMarkerHover cancels the timer of the hover before it; and after
\* handleMarkerHoverEnd no timer is left, so hover then hover-end with the
\* timer still pending issues no network call.
C13_HoverDebounce ==
    /\ [](/\ Cardinality(hoverTimers) <= 1
          /\ \A t \in hoverTimers :
                /\ t.id = hoverTimeoutRef
                /\ t.id = hoverTimerCount
                /\ t.pageid = lastHoverCall.pageid
                /\ hoverPosition # NoPosition)
    /\ [][/\ IsHoverFetchIssued =>
               /\ ~IsHoverCall
               /\ hoverPosition # NoPosition
               /\ hoverFetchCount' = hoverFetchCount + 1
               /\ \E t \in hoverTimers :
                     /\ hoverTimers' = hoverTimers \ {t}
                     /\ \A f \in hoverInflight' \ hoverInflight :
                           f.pageid = t.pageid /\ f.pageid = lastHoverCall.pageid
          /\ IsHoverCall =>
               /\ ~IsHoverFetchIssued
               /\ hoverTimers' \cap hoverTimers = {}
          /\ hoverPosition' = NoPosition =>
               /\ hoverTimers' = {}
               /\ ~IsHoverFetchIssued]_vars

\* One hover, ended before its timer fired: no fetch was ever issued.
C13_Witness ==
    /\ lastHoverCall.calls = 1
    /\ hoverTimerCount = 1
    /\ hoverPosition = NoPosition
    /\ hoverTimers = {}
    /\ hoverFetchCount = 0

\* C14: handleMarkerHover for a place whose (language, pageid) key is cached
\* shows the cached record of that place in the same step, leaves
\* isLoadingHover false, issues no fetch and leaves no timer pending.
C14_HoverCacheHit ==
    [][LET cacheKey == getCacheKey(lastHoverCall'.pageid, language)
       IN  IsHoverCall /\ cacheKey \in DOMAIN cacheRef =>
             /\ hoveredArticle' = cacheRef[cacheKey]
             /\ hoveredArticle'.pageid = lastHoverCall'.pageid
             /\ ~isLoadingHover'
             /\ hoverFetchCount' = hoverFetchCount
             /\ hoverInflight' = hoverInflight
             /\ hoverTimerCount' = hoverTimerCount
             /\ hoverTimers' = {}]_vars

\* A hover was served from the cache: it set no timer, and its article shows.
C14_Witness ==
    /\ hoverTimerCount < lastHoverCall.calls
    /\ hoverInflight = {}
    /\ hoverPosition # NoPosition
    /\ hoveredArticle # NoArticle
    /\ hoveredArticle.pageid = lastHoverCall.pageid

\* C15: the hover cache never holds more than 50 entries.
C15_CacheCapacity == Cardinality(DOMAIN cacheRef) <= MAX_CACHE_SIZE

\* A fetched article was admitted to the cache, which holds 50 entries.
C15_Witness ==
    /\ Cardinality(DOMAIN cacheRef) = MAX_CACHE_SIZE
    /\ hoverFetchCount >= 1
    /\ \E p \in PageIds : getCacheKey(p, language) \in DOMAIN cacheRef

\* The entry inserted earliest among those in the cache, told without the
\* order list: the earlier hovers inserted 101, 102, ... in that order, all
\* before anything this session inserts.
OldestPresent ==
    LET o == PrefilledOrder(MAX_CACHE_SIZE, language)
        i == CHOOSE i \in 1..Len(o) :
                /\ o[i] \in DOMAIN cacheRef
                /\ \A j \in 1..(i - 1) : o[j] \notin DOMAIN cacheRef
    IN  o[i]

\* C16: admitting a new key to a cache of 50 entries evicts exactly the entry
\* inserted earliest and keeps the 49 others with their articles; a cache hit
\* changes neither the cache nor the eviction order.
C16_FifoEviction ==
    [][/\ IsHoverCall =>
            cacheOrderRef' = cacheOrderRef /\ cacheRef' = cacheRef
       /\ \A f \in hoverInflight :
            LET key == getCacheKey(f.pageid, f.lang)
            IN  /\ HoverResolved(f)
                /\ Cardinality(DOMAIN cacheRef) = MAX_CACHE_SIZE
                /\ key \notin DOMAIN cacheRef
                /\ key \in DOMAIN cacheRef'
                => /\ DOMAIN cacheRef' =
                        (DOMAIN cacheRef \ {OldestPresent}) \cup {key}
                   /\ \A k \in DOMAIN cacheRef \ {OldestPresent} :
                        cacheRef'[k] = cacheRef[k]]_vars

\* 51 distinct keys were inserted, the last after a cache hit: the first is
\* gone and the 50 others are retrievable.
C16_Witness ==
    LET o == PrefilledOrder(MAX_CACHE_SIZE, language)
    IN  /\ o[1] \notin DOMAIN cacheRef
        /\ \A i \in 2..Len(o) : o[i] \in DOMAIN cacheRef
        /\ \E p \in PageIds : getCacheKey(p, language) \in DOMAIN cacheRef
        /\ Cardinality(DOMAIN cacheRef) = MAX_CACHE_SIZE
        /\ hoverTimerCount < lastHoverCall.calls

DetailResolved(f) == f \in detailInflight /\ f \notin detailInflight'

\* C3: when point B was selected while the detail fetch of point A was
\* outstanding, A's resolution does not set selectedArticle; and whenever no
\* detail fetch is outstanding the displayed detail, if any, is that of the
\* selected point.
C3_StaleSelectionSuppressed ==
    [][/\ \A f \in detailInflight :
            /\ DetailResolved(f)
            /\ f.id # detailFetchCount
            /\ selectedPlace # 0
            /\ f.pageid # selectedPlace
            => selectedArticle' = selectedArticle
       /\ (detailInflight' = {} /\ selectedPlace' # 0
             /\ selectedArticle' # NoArticle)
            => selectedArticle'.pageid = selectedPlace']_vars

\* C6: from handleClosePanel until the next handleMarkerClick, that is while
\* the panel is closed, no point is selected and no detail is held.
C6_ClosedPanelStaysCleared ==
    ~isPanelOpen => selectedPlace = 0 /\ selectedArticle = NoArticle

\* handleMarkerClick ran in this step.
IsMarkerClick == detailFetchCount' = detailFetchCount + 1

C19_AbsentDetailKeepsPanel ==
    [][\A f \in detailInflight :
          /\ DetailResolved(f)
          /\ f.id = detailFetchCount
          /\ f.pageid = selectedPlace
          /\ lastDetailAnswer' = "absent"
          => /\ isPanelOpen /\ isPanelOpen'
             /\ selectedPlace' = selectedPlace
             /\ selectedArticle' = NoArticle
             /\ ~isLoadingArticle']_vars

\* A second selection, made while the first one's article was shown, came
\* back absent: the panel is open on that place without article or spinner.
C19_Witness ==
    /\ detailFetchCount = 2
    /\ detailInflight = {}
    /\ lastDetailAnswer = "absent"
    /\ isPanelOpen
    /\ selectedPlace # 0
    /\ selectedArticle = NoArticle
    /\ ~isLoadingArticle

\* ============================================== claims on the bookmark store

PagesOf(list) == {list[i] : i \in 1..Len(list)}

\* C20: the collection never holds more than 100 bookmarks, whatever was
\* stored and whatever is toggled or removed; once it holds 100, no operation
\* admits a new id or raises the count.
C20_BookmarkCap ==
    /\ [](Len(bookmarks) <= MAX_BOOKMARKS)
    /\ [][Len(bookmarks) >= MAX_BOOKMARKS =>
             /\ Len(bookmarks') <= Len(bookmarks)
             /\ PagesOf(bookmarks') \subseteq PagesOf(bookmarks)]_vars

\* The hundredth bookmark was added by a toggle and the toggle of one more
\* new id has just been turned down.
C20_Witness ==
    /\ Len(bookmarks) = MAX_BOOKMARKS
    /\ bookmarks[MAX_BOOKMARKS] \in BookmarkIds
    /\ lastToasts = <<"Maximum 100 bookmarks allowed">>
    /\ lastSave = "none"

\* Kinds of bookmark step, read off the operation the step records.
IsToggleOf(p) == lastBookmarkOp' = [op |-> "toggle", pageid |-> p]
IsRemoveOf(p) == lastBookmarkOp' = [op |-> "remove", pageid |-> p]
IsLoad == ~bookmarksLoaded /\ bookmarksLoaded'
Removed(list, p) == SelectSeq(list, LAMBDA b : b # p)

\* C21: a toggle of an absent id at count >= 100 leaves the collection and
\* the stored value as they are, calls no save and raises the limit notice
\* only; a toggle of a present id removes it, also at count 100.
C21_RejectedToggleChangesNothing ==
    [][\A p \in BookmarkIds : IsToggleOf(p) =>
          IF p \in PagesOf(bookmarks)
          THEN /\ p \notin PagesOf(bookmarks')
               /\ Len(bookmarks') < Len(bookmarks)
               /\ lastSave' # "none"
          ELSE Len(bookmarks) >= MAX_BOOKMARKS =>
                 /\ bookmarks' = bookmarks
                 /\ storage' = storage
                 /\ bookmarksLoaded' = bookmarksLoaded
                 /\ lastSave' = "none"
                 /\ lastToasts' = <<"Maximum 100 bookmarks allowed">>]_vars

\* A toggle of an absent id was turned down at 100 while the stored list,
\* whose last write had failed, differs: nothing was written.
C21_Witness ==
    /\ lastBookmarkOp.op = "toggle"
    /\ lastBookmarkOp.pageid \notin PagesOf(bookmarks)
    /\ Len(bookmarks) = MAX_BOOKMARKS
    /\ prevBookmarks = bookmarks
    /\ lastSave = "none"
    /\ storage.list # bookmarks

\* C22: toggleBookmark(p) directly followed by toggleBookmark(p) restores
\* the membership of p and the number of bookmarks held before the first.
C22_ToggleRoundTrip ==
    [][\A p \in BookmarkIds :
          /\ lastBookmarkOp = [op |-> "toggle", pageid |-> p]
          /\ IsToggleOf(p)
          => /\ (p \in PagesOf(bookmarks')) = (p \in PagesOf(prevBookmarks))
             /\ Len(bookmarks') = Len(prevBookmarks)]_vars

\* C23: no two bookmarks of the collection have the same pageid.
C23_NoDuplicateBookmarks ==
    \A i, j \in 1..Len(bookmarks) : i # j => bookmarks[i] # bookmarks[j]

\* C24: every operation that changes the collection calls saveToStorage in
\* the same step, and when the write succeeds the stored value is the JSON of
\* the updated collection.
C24_MutationsArePersisted ==
    [][/\ bookmarksLoaded /\ bookmarks' # bookmarks => lastSave' # "none"
       /\ bookmarksLoaded /\ lastSave' = "written" =>
            storage' = [kind |-> "array", list |-> bookmarks']]_vars

\* A toggle added a bookmark and its write went through.
C24_Witness ==
    /\ lastBookmarkOp.op = "toggle"
    /\ lastSave = "written"
    /\ Len(bookmarks) = Len(prevBookmarks) + 1
    /\ storage = [kind |-> "array", list |-> bookmarks]

\* C25: when the write of a toggle or removal fails, the failure toast is
\* the last one raised, the collection holds the updated value and the
\* stored value is untouched.
C25_WriteFailureKeepsMemory ==
    [][\A p \in BookmarkIds :
          (IsToggleOf(p) \/ IsRemoveOf(p)) /\ lastSave' = "failed" =>
             /\ lastToasts' # <<>>
             /\ lastToasts'[Len(lastToasts')] = "Failed to save bookmark"
             /\ storage' = storage
             /\ bookmarks' = IF p \in PagesOf(bookmarks) \/ IsRemoveOf(p)
                              THEN Removed(bookmarks, p)
                              ELSE Append(bookmarks, p)]_vars

\* A removal by toggle whose write failed: memory and storage now differ.
C25_Witness ==
    /\ lastSave = "failed"
    /\ lastBookmarkOp.op = "toggle"
    /\ Len(bookmarks) < Len(prevBookmarks)
    /\ storage.kind = "array"
    /\ storage.list = prevBookmarks
    /\ lastToasts = <<"Bookmark removed", "Failed to save bookmark">>

\* C26: the load leaves the collection empty when the item is missing, is
\* not parseable or is no array, and makes it the first 100 elements at most
\* of a stored array.
C26_LoadFailsOpen ==
    [][IsLoad =>
          bookmarks' =
             IF storage.kind = "array"
             THEN [i \in 1..Min(Len(storage.list), MAX_BOOKMARKS) |->
                     storage.list[i]]
             ELSE <<>>]_vars

\* The hook is initialised over text that JSON.parse rejects.
C26_Witness ==
    /\ bookmarksLoaded
    /\ lastBookmarkOp.op = "load"
    /\ storage.kind = "malformed"
    /\ bookmarks = <<>>

\* ================================================= claims on the discovery

\* A pick was made in this step, in theme t.
IsPickIn(t) == Len(discoverPicks'[t]) = Len(discoverPicks[t]) + 1
LastPick(t) == discoverPicks'[t][Len(discoverPicks'[t])]

\* C27: in a theme of at least 6 locations, whatever is picked in other
\* themes in between and whatever the random choices, no index occurs twice
\* among any 5 consecutive picks of the theme.
C27_NoRepeatWithinFive ==
    \A t \in Themes : LocationCount[t] >= 6 =>
       \A i, j \in 1..Len(discoverPicks[t]) :
          i < j /\ j - i < 5 => discoverPicks[t][i] # discoverPicks[t][j]

\* Five picks of the long theme, with picks of the other theme in between.
C27_Witness ==
    /\ Len(discoverPicks["random"]) = 5
    /\ Len(discoverPicks["castles"]) >= 1

\* C28: the picked index is outside the theme's history, unless the history
\* covers the whole list, and then it is any index of the list; afterwards
\* the history is the old one with the pick appended, cut to its last 5
\* entries; the history never holds more than 5.
C28_PickStep ==
    /\ [](\A t \in Themes : Len(historyRef[t]) <= 5)
    /\ [][\A t \in Themes : IsPickIn(t) =>
             LET h == historyRef[t]
                 all == 0..(LocationCount[t] - 1)
                 seen == {h[k] : k \in 1..Len(h)}
                 grown == h \o <<LastPick(t)>>
                 drop == IF Len(grown) > 5 THEN Len(grown) - 5 ELSE 0
             IN  /\ LastPick(t) \in (IF all \ seen # {} THEN all \ seen ELSE all)
                 /\ historyRef'[t] =
                       [k \in 1..(Len(grown) - drop) |-> grown[k + drop]]
                 /\ discoverPicks'[t] = discoverPicks[t] \o <<LastPick(t)>>]_vars

\* The short theme was picked six times: its list was exhausted, the picks
\* fell back to the full index set, and the history was cut to 5.
C28_Witness ==
    /\ Len(discoverPicks["castles"]) = 6
    /\ Len(historyRef["castles"]) = 5
    /\ lastDiscover = [theme |-> "castles", result |-> TRUE]

\* ==================================================== claims on teardown

C30_RadiusClamp ==
    pureCall.fn = "calculateRadius" /\ pureCall.done =>
       LET half == pureCall.arg \div 2
       IN  /\ pureCall.arg = 2 * half
           /\ pureCall.result >= 8000
           /\ pureCall.result <= 10000
           /\ half < 8000 => pureCall.result = 8000
           /\ half > 10000 => pureCall.result = 10000
           /\ (half >= 8000 /\ half <= 10000) => pureCall.result = half

\* A half-diagonal of 3000 m was raised to the floor.
C30_Witness ==
    /\ pureCall.done
    /\ pureCall.arg = 6000
    /\ pureCall.result = 8000

\* ============================================ claims on the query coordinates

\* C31: for every coordinate pair handed to fetchNearbyPlaces, the longitude
\* of the outbound query lies in [-180, 180) and differs from the input
\* longitude by a multiple of 360 (190 becomes -170), and the latitude of the
\* query is the input latitude clamped to [-90, 90].
C31_CoordinateNormalization ==
    (pureCall.fn = "fetchNearbyPlaces.gscoord" /\ pureCall.done) =>
        LET lat == pureCall.arg.lat
            lon == pureCall.arg.lon
            out == pureCall.result
        IN  /\ out.lon >= -180
            /\ out.lon < 180
            /\ \E k \in -3..3 : out.lon = lon + 360 * k
            /\ (lon = 190) => (out.lon = -170)
            /\ out.lat = (IF lat < -90 THEN -90 ELSE IF lat > 90 THEN 90 ELSE lat)

\* A longitude of 190 and a latitude beyond the pole have been normalised.
C31_Witness ==
    /\ pureCall.fn = "fetchNearbyPlaces.gscoord"
    /\ pureCall.done
    /\ pureCall.arg.lon = 190
    /\ pureCall.arg.lat = 91
    /\ pureCall.result = [lat |-> 90, lon |-> -170]
\* =========================================== claims on the network functions

\* The transport failed or the body could not be parsed.
TransportOrParseFailure(resp) ==
    resp.transport = "rejected" \/ resp.body.kind = "unparsable"

C33_ScanDisabledMeansNoPlaces ==
    isScanDisabled => places = <<>>
\* C35: after the zoom gate cleared the point set, the next run of
\* fetchPlacesForBounds at zoom 11 or more issues a network fetch, also when
\* the viewport key equals the key of the last fetch issued before the
\* zoom-out.
C35_FetchAfterZoomRoundTrip ==
    [][(IsRun /\ isScanDisabled /\ mapRef # NoMap
          /\ mapRef.zoom >= MIN_SCAN_ZOOM) =>
             fetchCount' = fetchCount + 1]_vars
\* C36: whenever no points fetch is outstanding isLoadingPlaces is false;
\* and when the network answers every request, isLoadingPlaces is false for
\* good once the map is no longer moved.
C36_LoadingFlagQuiescence ==
    /\ [](inflight = {} => ~isLoadingPlaces)
    /\ <>[](~isLoadingPlaces)

\* Every fetch of the session was issued and answered, the last answer was
\* applied, and the flag is down.
C36_Witness ==
    /\ fetchCount = MaxFetches
    /\ inflight = {}
    /\ lastResponse.ok
    /\ places # <<>>
    /\ ~isLoadingPlaces
\* ====================================== further claims on the hover preview

\* C34: whenever a hover position and a hovered article are both set, the
\* article is the detail record of the place handed to the most recent
\* handleMarkerHover, never that of an earlier hover target.
C34_PreviewMatchesHoverTarget ==
    (hoverPosition # NoPosition /\ hoveredArticle # NoArticle) =>
        hoveredArticle.pageid = lastHoverCall.pageid

\* C37: the insertion-order list holds no key twice and its keys are exactly
\* the keys of the cache map.
C37_CacheBookkeepingConsistent ==
    /\ \A i, j \in 1..Len(cacheOrderRef) :
          cacheOrderRef[i] = cacheOrderRef[j] => i = j
    /\ {cacheOrderRef[i] : i \in 1..Len(cacheOrderRef)} = DOMAIN cacheRef
\* ========================================= further claims on the discovery

\* handleThemedDiscover(t) has run in this step and left a trace.
IsDiscoverCallOf(t) ==
    lastDiscover'.theme = t /\ discoverVars' # discoverVars

\* C38: handleThemedDiscover(t) leaves the history of every theme other than
\* t unchanged; without a map it returns false and changes no history, with
\* a map it returns true and the history of t is the one that changes.
C38_HistoriesIndependent ==
    [][\A t \in Themes : IsDiscoverCallOf(t) =>
          /\ \A u \in Themes \ {t} : historyRef'[u] = historyRef[u]
          /\ (mapRef = NoMap) =>
                (~lastDiscover'.result /\ historyRef' = historyRef)
          /\ (mapRef # NoMap) =>
                (lastDiscover'.result /\ historyRef'[t] # historyRef[t])]_vars

\* Both themes have a history of their own and the latest call, for the
\* short theme, returned true.
C38_Witness ==
    /\ Len(historyRef["random"]) >= 2
    /\ Len(historyRef["castles"]) >= 2
    /\ historyRef["random"] # historyRef["castles"]
    /\ lastDiscover = [theme |-> "castles", result |-> TRUE]
\* ================================================= claims on the indicator

\* How often so far an 'offline' event was followed by an 'online' event.
ReconnectCount ==
    Cardinality({i \in 1..(Len(networkEvents) - 1) :
                    /\ networkEvents[i] = "offline"
                    /\ networkEvents[i + 1] = "online"})

\* C39: after an 'offline' event followed by an 'online' event the indicator
\* eventually shows 'Back online' (showReconnected becomes true and the 3 s
\* timer is set), unless the connection is lost again first; a 'Back online'
\* notice on the screen is eventually hidden again; while offline the offline
\* notice is shown; online, in a session that never was offline, nothing is
\* shown.
C39_ReconnectNotice ==
    /\ (ReconnectCount = 1) ~> (reconnectTimerCount >= 1 \/ ~isOnline)
    /\ (Notice = "back online") ~> (Notice # "back online")
    /\ [](~isOnline => Notice = "offline")
    /\ []((isOnline /\ networkEvents = <<>>) => Notice = "nothing")
====
